---------------------------- MODULE Spec2Model ----------------------------
(***************************************************************************)
(* mr-manager (src/index.js): one CommandRunnerManager supervising one     *)
(* configured command and its install steps.                               *)
(*                                                                         *)
(* Runner 0 is the configured command (the parent CommandRunner); runners  *)
(* 1..n are the CommandRunners that start() builds for its install steps,  *)
(* in declared order.  Install steps are leaf commands here: they carry no *)
(* install list of their own.  Every runner may carry a watch.             *)
(*                                                                         *)
(* A child process is "running" until its 'close' event is handled; it is  *)
(* "killed" once tree-kill has been sent to it (its 'close' event is still *)
(* to come), and live while running and not killed.                        *)
(* An uncaught exception thrown inside an event handler ends the node      *)
(* process: error # "none" and nothing happens afterwards.                 *)
(* The Manager writes to a terminal, of which the columns in use on the    *)
(* current line are kept; the status line names the one command.           *)
(***************************************************************************)
EXTENDS Integers, Sequences, FiniteSets, TLC

\* ---- bounds of the model
MaxInstall == 2         \* longest install chain
MaxSpawns == 4          \* child processes spawned in one run
MaxChunkLines == 2      \* lines in one output chunk
MaxCommands == 3        \* commands in a configuration (include filter)
MaxInclude == 2         \* patterns in an include filter

Runners == 0 .. MaxInstall

\* ---- STATES (src/index.js:25-33)
STATES == {"INITIALIZING", "BUILDING", "READY", "FAILED", "CLOSED", "INSTALLING", "COMPLETE"}
\* the state of an install runner that start() has not constructed yet
NoRunner == "NONE"

\* ---- exit codes: the code of a 'close' event is a number, or null when the
\* ---- process was ended by a signal
NullCode == 0 - 1
ExitCodes == {NullCode, 0, 1}

\* JS `code != 0` (null != 0 is true) and `code === 0`
NotEqZero(code) == code # 0
StrictEqZero(code) == code = 0

\* ---- output: a chunk is a sequence of lines; a line is the set of the words it
\* ---- contains; a regex is the word it looks for
Words == {"listening", "compiling", "error"}
RestartWord == "restarting"
Lines == SUBSET Words

RECURSIVE SeqsUpTo(_, _)
SeqsUpTo(S, n) ==
  IF n = 0 THEN {<<>>}
  ELSE LET shorter == SeqsUpTo(S, n - 1)
       IN shorter \cup {Append(s, x) : s \in {t \in shorter : Len(t) = n - 1}, x \in S}

Chunks == SeqsUpTo(Lines, MaxChunkLines)
\* the chunks a child process writes in the supervision model
ProcChunks == {c \in Chunks : Len(c) <= 1}
\* "Watched files have changed, restarting..." (src/index.js:112)
RestartMessage == <<{RestartWord}>>

\* regex.test(data): the regex is tested against the whole chunk
Test(regex, data) == \E i \in 1 .. Len(data) : regex \in data[i]

\* data.match(/[^\r\n]+/g): the non-empty lines of the chunk, null when there is none
MatchLines(data) == IF Len(data) = 0 THEN "null" ELSE data

DefaultPatterns == [ready |-> {"listening"}, building |-> {"compiling"}, failed |-> {"error"}]

\* ---- names, tags and include patterns: non-empty strings, as sequences of
\* ---- characters; every command is named
Frontend == <<"f", "r", "o", "n", "t", "e", "n", "d">>
BackendSvc == <<"b", "a", "c", "k", "e", "n", "d", "-", "s", "v", "c">>
WorkerSvc == <<"w", "o", "r", "k", "e", "r", "-", "s", "v", "c">>
Ui == <<"u", "i">>
WebSvc == <<"w", "e", "b", "-", "s", "v", "c">>
StarSvc == <<"*", "-", "s", "v", "c">>
UQuestion == <<"u", "?">>
Star == <<"*">>

CommandNames == {Frontend, BackendSvc, WorkerSvc}
NoTags == [present |-> FALSE, list |-> <<>>]
TagLists == {NoTags, [present |-> TRUE, list |-> <<Ui>>], [present |-> TRUE, list |-> <<Ui, WebSvc>>]}
IncludePatterns == {StarSvc, Frontend, UQuestion, Star}
NoInclude == [present |-> FALSE, list |-> <<>>]

CommandSpecs == [name : CommandNames, tags : TagLists]
Configs ==
  [commands : SeqsUpTo(CommandSpecs, MaxCommands),
   include : {NoInclude} \cup [present : {TRUE}, list : SeqsUpTo(IncludePatterns, MaxInclude)]]

\* ---- minimatch(p, pattern) (src/index.js:12): literal characters, `?` for one
\* ---- character and `*` for any run of characters, matched case-sensitively
RECURSIVE Minimatch(_, _)
Minimatch(p, pattern) ==
  IF Len(pattern) = 0 THEN Len(p) = 0
  ELSE IF Head(pattern) = "*"
    THEN \E k \in 0 .. Len(p) : Minimatch(SubSeq(p, k + 1, Len(p)), Tail(pattern))
  ELSE IF Head(pattern) = "?"
    THEN Len(p) > 0 /\ Minimatch(Tail(p), Tail(pattern))
  ELSE Len(p) > 0 /\ Head(p) = Head(pattern) /\ Minimatch(Tail(p), Tail(pattern))

\* the tags left out of the match
IncludeMatchNameOnly(command, include) ==
  \E i \in 1 .. Len(include) : Minimatch(command.name, include[i])

\* ---- the filter callback of the Manager's constructor (src/index.js:176-180)
IncludeMatch(command, include) ==
  \E i \in 1 .. Len(include) :
    \/ Minimatch(command.name, include[i])
    \/ /\ command.tags.present
       /\ \E t \in 1 .. Len(command.tags.list) : Minimatch(command.tags.list[t], include[i])

\* ---- CommandRunnerManager constructor (src/index.js:172-185)
ManagerConstruct(config) ==
  IF config.include.present /\ Len(config.include.list) > 0
    THEN SelectSeq(config.commands, LAMBDA command : IncludeMatch(command, config.include.list))
    ELSE config.commands

\* ---- terminal text: a string is a sequence of characters; Esc is \u001b and
\* ---- Csi is \u009b
Esc == "ESC"
Csi == "CSI"
Digits == {"0", "1", "2", "3", "4", "5", "6", "7", "8", "9"}

\* CHARS (src/index.js:14-23)
CHARS ==
  [RED |-> <<Esc, "[", "3", "1", ";", "1", "m">>,
   BG_RED |-> <<Esc, "[", "3", "0", "m", Esc, "[", "4", "1", "m">>,
   MAGENTA |-> <<Esc, "[", "3", "5", ";", "1", "m">>,
   CYAN |-> <<Esc, "[", "3", "6", ";", "1", "m">>,
   GREEN |-> <<Esc, "[", "3", "2", ";", "1", "m">>,
   BG_GREEN |-> <<Esc, "[", "3", "0", "m", Esc, "[", "4", "2", "m">>,
   YELLOW |-> <<Esc, "[", "3", "3", ";", "1", "m">>,
   RESET |-> <<Esc, "[", "0", "m">>]

\* STATES[key] (src/index.js:25-33): the value this.state holds for each state
StateValue(key) ==
  CASE key = "INITIALIZING" -> CHARS.MAGENTA
    [] key = "BUILDING" -> CHARS.CYAN
    [] key = "READY" -> CHARS.GREEN
    [] key = "FAILED" -> CHARS.RED
    [] key = "CLOSED" -> CHARS.BG_RED
    [] key = "INSTALLING" -> CHARS.YELLOW
    [] key = "COMPLETE" -> CHARS.BG_GREEN

\* NAME_FOR_STATE(stateValue) (src/index.js:37)
NAME_FOR_STATE(stateValue) == CHOOSE key \in STATES : StateValue(key) = stateValue

\* NAME_FOR_STATE(state)[0].toUpperCase() (src/index.js:202)
FirstUpper(key) ==
  CASE key \in {"INITIALIZING", "INSTALLING"} -> "I"
    [] key = "BUILDING" -> "B"
    [] key = "READY" -> "R"
    [] key = "FAILED" -> "F"
    [] key \in {"CLOSED", "COMPLETE"} -> "C"

\* ---- COMMAND_STRIP_REGEX (src/index.js:35):
\* ----   [\u001b\u009b][[()#;?]*(?:[0-9]{1,4}(?:;[0-9]{0,4})*)?[0-9A-ORZcf-nqry=><]
\* ---- every quantifier is greedy and gives back one repetition at a time
PrefixChars == {"[", "(", ")", "#", ";", "?"}
FinalChars ==
  Digits \cup {"A", "B", "C", "D", "E", "F", "G", "H", "I", "J", "K", "L", "M", "N", "O"}
         \cup {"R", "Z", "c", "f", "g", "h", "i", "j", "k", "l", "m", "n", "q", "r", "y",
               "=", ">", "<"}

Drop(s, k) == SubSeq(s, k + 1, Len(s))
Largest(S) == CHOOSE k \in S : \A j \in S : j <= k
NoMatch == 0 - 1

\* the leading characters of s that are in class, max at most
RECURSIVE LeadingRun(_, _, _)
LeadingRun(s, class, max) ==
  IF max = 0 \/ s = <<>> \/ Head(s) \notin class THEN 0
  ELSE 1 + LeadingRun(Tail(s), class, max - 1)

\* [0-9A-ORZcf-nqry=><]
FinalLen(s) == IF s # <<>> /\ Head(s) \in FinalChars THEN 1 ELSE NoMatch

\* (?:;[0-9]{0,4})* and then the final character
RECURSIVE GroupsLen(_)
GroupsLen(s) ==
  IF s # <<>> /\ Head(s) = ";"
    THEN LET ok == {k \in 0 .. LeadingRun(Tail(s), Digits, 4) :
                      GroupsLen(Drop(s, 1 + k)) # NoMatch}
         IN IF ok # {} THEN 1 + Largest(ok) + GroupsLen(Drop(s, 1 + Largest(ok)))
            ELSE FinalLen(s)
    ELSE FinalLen(s)

\* (?:[0-9]{1,4}(?:;[0-9]{0,4})*)? and then the final character
ParamsLen(s) ==
  LET ok == {d \in 1 .. LeadingRun(s, Digits, 4) : GroupsLen(Drop(s, d)) # NoMatch}
  IN IF ok # {} THEN Largest(ok) + GroupsLen(Drop(s, Largest(ok))) ELSE FinalLen(s)

\* the length of the match of the regex after its first character, or NoMatch
CodeLen(s) ==
  LET ok == {a \in 0 .. LeadingRun(s, PrefixChars, Len(s)) : ParamsLen(Drop(s, a)) # NoMatch}
  IN IF ok # {} THEN Largest(ok) + ParamsLen(Drop(s, Largest(ok))) ELSE NoMatch

\* the escape codes left in
KeepCodes(s) == s

\* statusLine.replace(COMMAND_STRIP_REGEX, '') (src/index.js:205)
RECURSIVE StripCodes(_)
StripCodes(s) ==
  IF s = <<>> THEN <<>>
  ELSE IF Head(s) \in {Esc, Csi} /\ CodeLen(Tail(s)) # NoMatch
    THEN StripCodes(Drop(s, 1 + CodeLen(Tail(s))))
  ELSE <<Head(s)>> \o StripCodes(Tail(s))

\* ---- the terminal that process.stdout writes to: a control sequence (ESC [, its
\* ---- parameter bytes and one final byte) takes no column, any other character one
CsiParams == Digits \cup {";"}

RECURSIVE SkipCsi(_)
SkipCsi(s) ==
  IF s = <<>> THEN <<>>
  ELSE IF Head(s) \in CsiParams THEN SkipCsi(Tail(s))
  ELSE Tail(s)

RECURSIVE Columns(_)
Columns(s) ==
  IF s = <<>> THEN 0
  ELSE IF Head(s) = Esc /\ Len(s) > 1 /\ s[2] = "["
    THEN Columns(SkipCsi(Drop(s, 2)))
  ELSE 1 + Columns(Tail(s))

\* os.userInfo().username (src/index.js:204)
Username == <<"m", "e">>

\* this.statusLineLength before _logStatusLines has set it
Undefined == 0 - 1
\* ' '.repeat(count) (src/index.js:197): undefined counts as 0
Repeat(count) == IF count = Undefined THEN 0 ELSE count

\* ---- this.watch as configured (src/README.md:94): a path, a list of paths, or a map
\* ---- with paths and options; the options of a map may set ignoreInitial and ignored
\* ---- (the code reads the options under the key `opts`)
NoOpts == [present |-> FALSE, ignoreInitial |-> "unset", ignored |-> "unset"]
UserOpts == [present : {TRUE}, ignoreInitial : {"unset", "false"},
             ignored : {"unset", "node_modules", "dist"}]
PathWatch == [kind |-> "string", key |-> "opts", opts |-> NoOpts]
WatchForms ==
  {PathWatch, [kind |-> "array", key |-> "opts", opts |-> NoOpts]}
    \cup [kind : {"map"}, key : {"opts", "options"}, opts : {NoOpts} \cup UserOpts]
\* a runner that has registered no watcher
NoWatcher == [registered |-> FALSE, ignoreInitial |-> "unset", ignored |-> "unset"]

VARIABLES
  install,      \* this.install of each runner: the install steps still queued
  watch,        \* this.watch of each runner (configured or not)
  patterns,     \* this.ready / this.building / this.failed of each runner
  state,        \* this.state of each runner
  started,      \* this._started
  restarted,    \* this.restarted
  watchers,     \* chokidar watchers registered by each runner
  procs,        \* every child process spawned so far, in spawn order
  proc,         \* this._proc of each runner: index into procs, 0 when unset
  timers,       \* pending setTimeout(() => this._run(), 1000) of each runner
  closeLog,     \* the calls of the Manager's close callback, in order
  error,        \* "none", or the uncaught exception that ended the program
  managerStarted, \* CommandRunnerManager.start() has run
  rawConfig,    \* the configuration handed to new CommandRunnerManager(config)
  commands,     \* this._commands of the Manager: the commands it supervises
  watchForm,    \* the shape of this.watch of each runner, where it is configured
  watcherOpts,  \* the options each runner handed to chokidar.watch
  statusLineLength, \* this.statusLineLength of the Manager
  termLine      \* the columns in use on the current line of the terminal

vars == <<install, watch, patterns, state, started, restarted, watchers, procs, proc,
          timers, closeLog, error, managerStarted, rawConfig, commands, watchForm,
          watcherOpts, statusLineLength, termLine>>

\* the mutable program state as one record, so that the methods are operators on it.
\* An event handler also leaves, in calls, the callbacks it called and, in erasures,
\* its _clearStatusLines calls, both in order.
Cur == [install |-> install, watch |-> watch, patterns |-> patterns, state |-> state,
        started |-> started, restarted |-> restarted, watchers |-> watchers,
        procs |-> procs, proc |-> proc, timers |-> timers, closeLog |-> closeLog,
        error |-> error, watchForm |-> watchForm, watcherOpts |-> watcherOpts,
        statusLineLength |-> statusLineLength, termLine |-> termLine,
        calls |-> <<>>, erasures |-> <<>>]

Become(S) ==
  /\ install' = S.install
  /\ watch' = S.watch
  /\ patterns' = S.patterns
  /\ state' = S.state
  /\ started' = S.started
  /\ restarted' = S.restarted
  /\ watchers' = S.watchers
  /\ procs' = S.procs
  /\ proc' = S.proc
  /\ timers' = S.timers
  /\ closeLog' = S.closeLog
  /\ error' = S.error
  /\ watchForm' = S.watchForm
  /\ watcherOpts' = S.watcherOpts
  /\ statusLineLength' = S.statusLineLength
  /\ termLine' = S.termLine

Installer(r) == r # 0

\* the installer option left out of the test
InitialStateOwnChain(installer, installList) ==
  IF Len(installList) > 0 THEN "INSTALLING" ELSE "INITIALIZING"

\* ---- CommandRunner constructor (src/index.js:42-54): the initial state
InitialState(installer, installList) ==
  IF installer \/ Len(installList) > 0 THEN "INSTALLING" ELSE "INITIALIZING"

\* ---- CommandRunnerManager._clearStatusLines (src/index.js:196-198): a carriage
\* ---- return, this.statusLineLength spaces, a carriage return
ManagerClear(S) ==
  LET count == Repeat(S.statusLineLength)
  IN [S EXCEPT !.erasures = Append(@, [erased |-> count, shown |-> S.termLine]),
               !.termLine = IF count >= @ THEN 0 ELSE @ - count]

\* console.log(...): the text and a line feed, which leaves the current line empty
ConsoleLog(S) == [S EXCEPT !.termLine = 0]

\* the statusLine of _logStatusLines (src/index.js:201-204) when the one command the
\* Manager supervises, runner 0, is in the state key
StatusLine(key) ==
  <<"[">> \o Username \o <<"]", " ">>
    \o StateValue(key) \o Frontend
    \o <<"{", FirstUpper(NAME_FOR_STATE(StateValue(key))), "}">> \o CHARS.RESET

\* statusLine.replace(COMMAND_STRIP_REGEX, '').length (src/index.js:205), and the
\* columns the terminal gives the status line, for each state of the command
StrippedLength == [key \in STATES |-> Len(StripCodes(StatusLine(key)))]
StatusColumns == [key \in STATES |-> Columns(StatusLine(key))]

\* ---- CommandRunnerManager._logStatusLines (src/index.js:200-207)
ManagerLogStatusLines(S) ==
  [S EXCEPT !.statusLineLength = StrippedLength[S.state[0]],
            !.termLine = @ + StatusColumns[S.state[0]]]

\* ---- CommandRunnerManager._state (src/index.js:209-214)
ManagerState(S) == ManagerLogStatusLines(ConsoleLog(ManagerClear(S)))

\* ---- CommandRunnerManager._out / _err (src/index.js:216-234): destructuring the
\* ---- null that data.match returns for a chunk without a non-empty line throws
ManagerOut(S, r, data) ==
  LET S1 == ManagerClear(S)
  IN IF MatchLines(data) = "null"
       THEN [S1 EXCEPT !.error = "TypeError"]
       ELSE ManagerLogStatusLines(ConsoleLog(S1))

\* ---- CommandRunnerManager._close (src/index.js:236-241).  info is either the
\* ---- record {name, code, restart} or, from the install close handler, a bare
\* ---- exit code: destructuring null throws, and a number has no restart
\* ---- property, so restart() throws
ManagerClose(S, info) ==
  LET logged == [S EXCEPT !.closeLog = Append(@, info)]
  IN IF info.bare /\ info.code = NullCode
       THEN [logged EXCEPT !.error = "TypeError"]
     ELSE IF info.bare
       THEN [ConsoleLog(ManagerClear(logged)) EXCEPT !.error = "TypeError"]
     ELSE ManagerLogStatusLines(
            [ConsoleLog(ManagerClear(logged)) EXCEPT !.timers[info.name] = @ + 1])

\* ---- CommandRunner._propagateState (src/index.js:117-121): the state callback is
\* ---- the Manager's _state for the command and for its install runners alike
PropagateState(S, r) ==
  ManagerState([S EXCEPT !.calls = Append(@, [cb |-> "state", name |-> r, state |-> S.state[r]])])

\* ---- CommandRunner._run (src/index.js:89-95)
Run(S, r) ==
  [S EXCEPT !.procs = Append(@, [owner |-> r, st |-> "running", killed |-> FALSE, code |-> NullCode]),
            !.proc[r] = Len(S.procs) + 1]

\* ---- CommandRunner._startAutoreload (src/index.js:97-108): the options are {} for
\* ---- a path or a list of paths and this.watch.opts || {} for a map, with
\* ---- ignoreInitial set to true in either
StartAutoreload(S, r) ==
  LET form == S.watchForm[r]
      opts == IF form.kind \in {"string", "array"} \/ form.key # "opts" \/ ~form.opts.present
                THEN NoOpts ELSE form.opts
      passed == [opts EXCEPT !.ignoreInitial = "true"]
  IN [S EXCEPT !.watchers[r] = @ + 1,
               !.watcherOpts[r] = [registered |-> TRUE, ignoreInitial |-> passed.ignoreInitial,
                                   ignored |-> passed.ignored]]

\* the failed list tested before the ready list
CheckUpdateStateFailedFirst(S, r, data) ==
  IF \E regex \in S.patterns[r].failed : Test(regex, data)
    THEN PropagateState([S EXCEPT !.state[r] = "FAILED"], r)
  ELSE IF \E regex \in S.patterns[r].ready : Test(regex, data)
    THEN PropagateState([S EXCEPT !.state[r] = "READY"], r)
  ELSE IF \E regex \in S.patterns[r].building : Test(regex, data)
    THEN PropagateState([S EXCEPT !.state[r] = "BUILDING"], r)
  ELSE S

\* the chunk split into lines and every line classified on its own, in order
RECURSIVE CheckUpdateStatePerLine(_, _, _)
CheckUpdateStatePerLine(S, r, data) ==
  IF data = <<>> THEN S
  ELSE LET line == <<Head(data)>>
           S1 == IF \E regex \in S.patterns[r].ready : Test(regex, line)
                   THEN PropagateState([S EXCEPT !.state[r] = "READY"], r)
                 ELSE IF \E regex \in S.patterns[r].building : Test(regex, line)
                   THEN PropagateState([S EXCEPT !.state[r] = "BUILDING"], r)
                 ELSE IF \E regex \in S.patterns[r].failed : Test(regex, line)
                   THEN PropagateState([S EXCEPT !.state[r] = "FAILED"], r)
                 ELSE S
       IN CheckUpdateStatePerLine(S1, r, Tail(data))

\* ---- CommandRunner._checkUpdateState (src/index.js:123-139)
CheckUpdateState(S, r, data) ==
  IF \E regex \in S.patterns[r].ready : Test(regex, data)
    THEN PropagateState([S EXCEPT !.state[r] = "READY"], r)
  ELSE IF \E regex \in S.patterns[r].building : Test(regex, data)
    THEN PropagateState([S EXCEPT !.state[r] = "BUILDING"], r)
  ELSE IF \E regex \in S.patterns[r].failed : Test(regex, data)
    THEN PropagateState([S EXCEPT !.state[r] = "FAILED"], r)
  ELSE S

\* ---- CommandRunner._out / _err (src/index.js:141-153): the out / err callback,
\* ---- then the classification
RunnerOut(S, r, data) ==
  LET S1 == ManagerOut([S EXCEPT !.calls = Append(@, [cb |-> "out", name |-> r, data |-> data])],
                       r, data)
  IN IF S1.error # "none" THEN S1 ELSE CheckUpdateState(S1, r, data)

\* kill(this._proc.pid) (src/index.js:113): nothing happens to a process that is gone
Kill(S, i) == IF S.procs[i].st = "running" THEN [S EXCEPT !.procs[i].killed = TRUE] ELSE S

\* ---- CommandRunner._restart (src/index.js:110-115)
RunnerRestart(S, r) ==
  LET S1 == [S EXCEPT !.restarted[r] = TRUE]
      S2 == RunnerOut(S1, r, RestartMessage)
  IN IF S2.error # "none" THEN S2 ELSE Run(Kill(S2, S2.proc[r]), r)

\* ---- CommandRunner.start (src/index.js:56-87)
RECURSIVE RunnerStart(_, _)
RunnerStart(S, r) ==
  IF Len(S.install[r]) > 0
    THEN LET currentInstallStep == Head(S.install[r])
             S1 == [S EXCEPT !.install[r] = Tail(@),
                             !.state[currentInstallStep] = InitialState(TRUE, <<>>)]
         IN RunnerStart(S1, currentInstallStep)
  ELSE IF ~S.started[r]
    THEN LET S1 == Run(PropagateState([S EXCEPT !.started[r] = TRUE], r), r)
         IN IF S1.watch[r] THEN StartAutoreload(S1, r) ELSE S1
  ELSE [S EXCEPT !.error = "AlreadyStarted"]

\* ---- the close callback start() hands to an install runner (src/index.js:67-74)
InstallClose(S, parent, info) ==
  IF NotEqZero(info.code)
    THEN ManagerClose(S, [bare |-> TRUE, name |-> parent, code |-> info.code, restart |-> FALSE])
    ELSE RunnerStart([S EXCEPT !.state[parent] = "INITIALIZING"], parent)

\* the close callback called before the state is propagated
RunnerCloseNotifyFirst(S, r, code) ==
  IF S.restarted[r]
    THEN [S EXCEPT !.restarted[r] = FALSE]
    ELSE LET S1 == [S EXCEPT !.state[r] =
                       IF Installer(r) /\ StrictEqZero(code) THEN "COMPLETE" ELSE "CLOSED",
                             !.calls = Append(@, [cb |-> "close", name |-> r, code |-> code])]
             info == [bare |-> FALSE, name |-> r, code |-> code, restart |-> TRUE]
             S2 == IF Installer(r) THEN InstallClose(S1, 0, info) ELSE ManagerClose(S1, info)
         IN IF S2.error # "none" THEN S2 ELSE PropagateState(S2, r)

\* ---- CommandRunner._close (src/index.js:155-168)
RunnerClose(S, r, code) ==
  IF S.restarted[r]
    THEN [S EXCEPT !.restarted[r] = FALSE]
    ELSE LET S1 == PropagateState(
                     [S EXCEPT !.state[r] =
                        IF Installer(r) /\ StrictEqZero(code) THEN "COMPLETE" ELSE "CLOSED"], r)
             info == [bare |-> FALSE, name |-> r, code |-> code, restart |-> TRUE]
             S2 == [S1 EXCEPT !.calls = Append(@, [cb |-> "close", name |-> r, code |-> code])]
         IN IF Installer(r) THEN InstallClose(S2, 0, info) ELSE ManagerClose(S2, info)

\* ======================================================================
\* Init: the state after `new CommandRunnerManager(config)`
\* ======================================================================
InitWith(n, w, pats, forms) ==
  /\ install = [r \in Runners |-> IF r = 0 THEN [i \in 1 .. n |-> i] ELSE <<>>]
  /\ watch = w
  /\ patterns = pats
  /\ state = [r \in Runners |->
                IF r = 0 THEN InitialState(FALSE, [i \in 1 .. n |-> i]) ELSE NoRunner]
  /\ started = [r \in Runners |-> FALSE]
  /\ restarted = [r \in Runners |-> FALSE]
  /\ watchers = [r \in Runners |-> 0]
  /\ procs = <<>>
  /\ proc = [r \in Runners |-> 0]
  /\ timers = [r \in Runners |-> 0]
  /\ closeLog = <<>>
  /\ error = "none"
  /\ managerStarted = FALSE
  /\ rawConfig = [commands |-> <<[name |-> Frontend, tags |-> NoTags]>>, include |-> NoInclude]
  /\ commands = [constructed |-> TRUE, list |-> ManagerConstruct(rawConfig)]
  /\ watchForm = forms
  /\ watcherOpts = [r \in Runners |-> NoWatcher]
  /\ statusLineLength = Undefined
  /\ termLine = 0

\* every watch a plain path
InitLineage(n, w, pats) == InitWith(n, w, pats, [r \in Runners |-> PathWatch])

Init ==
  \E n \in 0 .. MaxInstall :
    \E w \in [Runners -> BOOLEAN] :
      /\ \A r \in Runners : r > n => ~w[r]
      /\ InitLineage(n, w, [r \in Runners |-> DefaultPatterns])

\* ======================================================================
\* Actions: one per event handler
\* ======================================================================
Alive == error = "none"

Fits(S) == Len(S.procs) <= MaxSpawns

\* what each event handler makes of the current state
StartResult == RunnerStart(Cur, 0)
CloseResult(i, code) ==
  RunnerClose([Cur EXCEPT !.procs[i].st = "exited", !.procs[i].code = code], procs[i].owner, code)
TimerResult(r) == Run([Cur EXCEPT !.timers[r] = @ - 1], r)
ChangeResult(r) == RunnerRestart(Cur, r)
DataResult(i, data) == RunnerOut(Cur, procs[i].owner, data)

\* CommandRunnerManager.start (src/index.js:187-194)
ManagerStart ==
  /\ Alive
  /\ ~managerStarted
  /\ managerStarted' = TRUE
  /\ Become(StartResult)
  /\ UNCHANGED <<rawConfig, commands>>

\* the 'close' event of child process i (src/index.js:94)
ProcClose(i, code) ==
  /\ Alive
  /\ procs[i].st = "running"
  /\ Fits(CloseResult(i, code))
  /\ Become(CloseResult(i, code))
  /\ UNCHANGED <<managerStarted, rawConfig, commands>>

\* the restart delay elapses (src/index.js:164)
TimerFire(r) ==
  /\ Alive
  /\ timers[r] > 0
  /\ Fits(TimerResult(r))
  /\ Become(TimerResult(r))
  /\ UNCHANGED <<managerStarted, rawConfig, commands>>

\* a chokidar 'all' event of a watcher of runner r (src/index.js:107)
WatchChange(r) ==
  /\ Alive
  /\ watchers[r] > 0
  /\ Fits(ChangeResult(r))
  /\ Become(ChangeResult(r))
  /\ UNCHANGED <<managerStarted, rawConfig, commands>>

\* a 'data' event on stdout or stderr of child process i (src/index.js:92-93)
ProcData(i, data) ==
  /\ Alive
  /\ procs[i].st = "running"
  /\ Become(DataResult(i, data))
  /\ UNCHANGED <<managerStarted, rawConfig, commands>>

\* `new CommandRunnerManager(config)` (src/index.js:258)
Construct ==
  /\ ~commands.constructed
  /\ commands' = [constructed |-> TRUE, list |-> ManagerConstruct(rawConfig)]
  /\ UNCHANGED <<install, watch, patterns, state, started, restarted, watchers, procs,
                 proc, timers, closeLog, error, managerStarted, rawConfig, watchForm,
                 watcherOpts, statusLineLength, termLine>>

\* start() called on the command's CommandRunner once more, by a caller other than
\* the runner itself (src/index.js:56)
StartAgain ==
  /\ Alive
  /\ managerStarted
  /\ Fits(StartResult)
  /\ Become(StartResult)
  /\ UNCHANGED <<managerStarted, rawConfig, commands>>

Next ==
  \/ ManagerStart
  \/ \E i \in 1 .. Len(procs) : \E code \in ExitCodes : ProcClose(i, code)
  \/ \E r \in Runners : TimerFire(r)
  \/ \E r \in Runners : WatchChange(r)
  \/ \E i \in 1 .. Len(procs) : \E data \in ProcChunks : ProcData(i, data)

Spec == Init /\ [][Next]_vars

\* ---- a second start() from outside
NextReentry == Next \/ StartAgain
SpecReentry == Init /\ [][NextReentry]_vars

\* ---- classification: one command without install steps, any pattern lists
InitClassify ==
  \E pats \in [ready : SUBSET Words, building : SUBSET Words, failed : SUBSET Words] :
    InitLineage(0, [r \in Runners |-> FALSE],
                [r \in Runners |-> IF r = 0 THEN pats ELSE DefaultPatterns])

NextClassify ==
  \/ ManagerStart
  \/ \E i \in 1 .. Len(procs) : \E data \in Chunks : ProcData(i, data)

SpecClassify == InitClassify /\ [][NextClassify]_vars

\* ---- include filtering: any configuration, before the Manager is constructed
InitFilter ==
  \E config \in Configs :
    /\ install = [r \in Runners |-> <<>>]
    /\ watch = [r \in Runners |-> FALSE]
    /\ patterns = [r \in Runners |-> DefaultPatterns]
    /\ state = [r \in Runners |-> NoRunner]
    /\ started = [r \in Runners |-> FALSE]
    /\ restarted = [r \in Runners |-> FALSE]
    /\ watchers = [r \in Runners |-> 0]
    /\ procs = <<>>
    /\ proc = [r \in Runners |-> 0]
    /\ timers = [r \in Runners |-> 0]
    /\ closeLog = <<>>
    /\ error = "none"
    /\ managerStarted = FALSE
    /\ rawConfig = config
    /\ commands = [constructed |-> FALSE, list |-> <<>>]
    /\ watchForm = [r \in Runners |-> PathWatch]
    /\ watcherOpts = [r \in Runners |-> NoWatcher]
    /\ statusLineLength = Undefined
    /\ termLine = 0

NextFilter == Construct

SpecFilter == InitFilter /\ [][NextFilter]_vars

\* ---- the supervision model restricted to install steps that carry no watch
InitPlainInstall == Init /\ \A r \in Runners : Installer(r) => ~watch[r]
SpecPlainInstall == InitPlainInstall /\ [][Next]_vars

\* ---- one watched command without install steps, its watch in any of the forms
InitWatch ==
  \E form \in WatchForms :
    InitWith(0, [r \in Runners |-> r = 0], [r \in Runners |-> DefaultPatterns],
             [r \in Runners |-> IF r = 0 THEN form ELSE PathWatch])
SpecWatch == InitWatch /\ [][Next]_vars

\* ======================================================================
\* Properties
\* ======================================================================
\* a live child process: running, and no tree-kill sent to it
Live(i) == procs[i].st = "running" /\ ~procs[i].killed
\* the length of the install chain as configured
Declared == Len(install[0]) + Cardinality({r \in Runners \ {0} : state[r] # NoRunner})
\* child process i exits in this step
Exits(i) == procs[i].st = "running" /\ procs'[i].st = "exited"
\* the child processes spawned in this step
Spawned == (Len(procs) + 1) .. Len(procs')

\* C1: a second start() on the same runner always fails with the "has already
\* started" error and spawns no process, whenever it happens.
C1_SecondStartFails ==
  [][StartAgain => (error' = "AlreadyStarted" /\ procs' = procs)]_vars

\* C2: the main command is not spawned until every declared install step has exited
\* with code 0; the steps are spawned in declared order, each at most once; and no
\* two install steps' processes are alive at the same time.
C2_InstallChainInOrder ==
  /\ \A i \in DOMAIN procs :
       procs[i].owner = 0 =>
         \A k \in 1 .. Declared :
           \E j \in 1 .. (i - 1) :
             procs[j].owner = k /\ procs[j].st = "exited" /\ procs[j].code = 0
  /\ \A i, j \in DOMAIN procs :
       (i < j /\ procs[i].owner # 0 /\ procs[j].owner # 0) => procs[i].owner < procs[j].owner
  /\ Cardinality({i \in DOMAIN procs : procs[i].owner # 0 /\ Live(i)}) <= 1

\* C3: once an install step k has exited on its own with a non-zero code, no later
\* step and no main command is spawned, and the Manager's close callback has been
\* called with exactly that code and no restart capability.
FailedStep(p) ==
  p.owner # 0 /\ p.st = "exited" /\ ~p.killed /\ p.code # 0 /\ p.code # NullCode

C3_InstallFailureAborts ==
  [][/\ \A i \in DOMAIN procs :
          FailedStep(procs[i]) =>
            \A j \in Spawned : procs'[j].owner # 0 /\ procs'[j].owner <= procs[i].owner
     /\ \A i \in DOMAIN procs' :
          FailedStep(procs'[i]) =>
            \E e \in DOMAIN closeLog' :
              closeLog'[e].code = procs'[i].code /\ ~closeLog'[e].restart]_vars

\* C4: every exit of the main command's process that no watch restart killed
\* schedules exactly one respawn.
C4_CrashSchedulesOneRespawn ==
  [][\A i \in DOMAIN procs :
       (procs[i].owner = 0 /\ ~procs[i].killed /\ Exits(i)) => timers'[0] = timers[0] + 1]_vars

\* C5: a change event while the main command is running kills the current process
\* and spawns exactly one new one at once, and the exit of a process killed that way
\* never reaches the Manager's close callback and schedules no respawn.
C5_WatchRestartIsSilent ==
  [][/\ (WatchChange(0) /\ Live(proc[0])) =>
          /\ Len(procs') = Len(procs) + 1
          /\ procs'[Len(procs')].owner = 0
          /\ procs'[proc[0]].killed
          /\ closeLog' = closeLog
     /\ \A i \in DOMAIN procs :
          (procs[i].owner = 0 /\ procs[i].killed /\ Exits(i)) =>
            (closeLog' = closeLog /\ timers' = timers)]_vars

\* C6: for every output line: a match of a ready pattern gives READY whatever else
\* matches; otherwise a match of a building pattern gives BUILDING; otherwise a match
\* of a failed pattern gives FAILED; otherwise the state stays.
C6_ReadyBuildingFailed ==
  [][\A i \in DOMAIN procs : \A line \in Lines :
       ProcData(i, <<line>>) =>
         state'[0] = IF patterns[0].ready \cap line # {} THEN "READY"
                     ELSE IF patterns[0].building \cap line # {} THEN "BUILDING"
                     ELSE IF patterns[0].failed \cap line # {} THEN "FAILED"
                     ELSE state[0]]_vars

\* a READY that only a line matching both a ready and a failed pattern can have given
C6_Witness ==
  /\ patterns[0].ready = {"error"}
  /\ patterns[0].failed = {"error"}
  /\ patterns[0].building = {"compiling"}
  /\ state[0] = "READY"

\* C7: with a non-empty include filter the Manager supervises exactly the configured
\* commands whose name or one of whose tags matches one of the patterns; with no
\* filter or an empty one, all of them (frontend, backend-svc, worker-svc under
\* *-svc: exactly backend-svc and worker-svc).
Wanted(command) ==
  (rawConfig.include.present /\ rawConfig.include.list # <<>>) =>
    \E pattern \in {rawConfig.include.list[i] : i \in DOMAIN rawConfig.include.list} :
      \/ Minimatch(command.name, pattern)
      \/ \E tag \in {command.tags.list[t] : t \in DOMAIN command.tags.list} :
           Minimatch(tag, pattern)

ExampleConfig ==
  /\ rawConfig.commands = <<[name |-> Frontend, tags |-> NoTags],
                            [name |-> BackendSvc, tags |-> NoTags],
                            [name |-> WorkerSvc, tags |-> NoTags]>>
  /\ rawConfig.include = [present |-> TRUE, list |-> <<StarSvc>>]

C7_IncludeFilter ==
  commands.constructed =>
    /\ \A c \in CommandSpecs :
         (\E i \in DOMAIN commands.list : commands.list[i] = c)
           <=> (Wanted(c) /\ \E i \in DOMAIN rawConfig.commands : rawConfig.commands[i] = c)
    /\ Len(commands.list)
         = Cardinality({i \in DOMAIN rawConfig.commands : Wanted(rawConfig.commands[i])})
    /\ ExampleConfig =>
         commands.list = <<[name |-> BackendSvc, tags |-> NoTags],
                           [name |-> WorkerSvc, tags |-> NoTags]>>

C7_Witness ==
  /\ commands.constructed
  /\ ExampleConfig
  /\ Len(commands.list) = 2
  /\ commands.list[1].name = BackendSvc
  /\ commands.list[2].name = WorkerSvc

\* C8: a command with no install steps and no watch that exits with code 1 becomes
\* CLOSED, the Manager's close callback runs and schedules the respawn, and the
\* respawn puts the state back to INITIALIZING.
C8_RespawnReinitializes ==
  [][(Declared = 0 /\ ~watch[0]) =>
       /\ \A i \in DOMAIN procs :
            (Exits(i) /\ procs'[i].code = 1) =>
              /\ state'[0] = "CLOSED"
              /\ Len(closeLog') = Len(closeLog) + 1
              /\ timers'[0] = timers[0] + 1
       /\ TimerFire(0) => (procs'[Len(procs')].owner = 0 /\ state'[0] = "INITIALIZING")]_vars

\* C9: once the main command has been spawned, no install step is spawned again.
C9_InstallOnlyBeforeFirstStart ==
  [][(\E i \in DOMAIN procs : procs[i].owner = 0) =>
       \A j \in Spawned : procs'[j].owner = 0]_vars

\* C10: a command and its install steps never have more than one live child process.
C10_OneLiveProcess ==
  Cardinality({i \in DOMAIN procs : Live(i)}) <= 1

\* the status line on the terminal is the one of the command's current state
Rendered == termLine = StatusColumns[state[0]]
\* a process of an install step is running
StepRunning == \E i \in DOMAIN procs : procs[i].owner # 0 /\ procs[i].st = "running"
\* the state callbacks in the calls of a handler
StateEvents(S) == Cardinality({k \in DOMAIN S.calls : S.calls[k].cb = "state"})
\* every _clearStatusLines of a handler erased just the columns in use
Exact(S) == \A k \in DOMAIN S.erasures : S.erasures[k].erased = S.erasures[k].shown

\* C11: when the Manager's close callback is called without a restart capability
\* (an install step has failed), it raises no error, schedules no respawn and spawns
\* nothing, the status line is written again, and the failed step stays CLOSED.
C11_InstallFailureIsReported ==
  [][\A i \in DOMAIN procs : \A code \in ExitCodes :
       (/\ ProcClose(i, code)
        /\ Len(closeLog') > Len(closeLog)
        /\ ~closeLog'[Len(closeLog')].restart) =>
         /\ error' = "none"
         /\ timers' = timers
         /\ Spawned = {}
         /\ state'[procs[i].owner] = "CLOSED"
         /\ Rendered']_vars

\* C12: every watcher is registered with events for the files that exist already
\* suppressed and with node_modules excluded, whatever the form of the watch.
C12_WatcherOptions ==
  \A r \in Runners :
    watcherOpts[r].registered =>
      (watcherOpts[r].ignoreInitial = "true" /\ watcherOpts[r].ignored = "node_modules")

\* C13: the words of a chunk, the state a set of words gives, and the state the
\* lines of a chunk give when each is classified on its own, in order
WordsOf(data) == UNION {data[k] : k \in DOMAIN data}
Matching(pats, words) == (pats.ready \cup pats.building \cup pats.failed) \cap words # {}
Verdict(pats, words, old) ==
  IF pats.ready \cap words # {} THEN "READY"
  ELSE IF pats.building \cap words # {} THEN "BUILDING"
  ELSE IF pats.failed \cap words # {} THEN "FAILED"
  ELSE old

RECURSIVE LineByLine(_, _, _)
LineByLine(pats, data, old) ==
  IF data = <<>> THEN old
  ELSE LineByLine(pats, Tail(data), Verdict(pats, Head(data), old))

\* C13 (as specified): a chunk is classified line by line: every matching line gives
\* its own state update and state event, and the last matching line decides the state.
C13_ClassifiedLineByLine ==
  [][\A i \in DOMAIN procs : \A data \in Chunks :
       ProcData(i, data) =>
         /\ state'[0] = LineByLine(patterns[0], data, state[0])
         /\ StateEvents(DataResult(i, data))
              = Cardinality({k \in DOMAIN data : Matching(patterns[0], data[k])})]_vars

\* C13 (amended): a chunk is classified once, as a whole: whatever chunk a running
\* process writes next, the ready, building and failed lists are tested in that order
\* against the whole chunk, the first list with a match anywhere in it decides the
\* state and gives exactly one state event, and a chunk without a match changes
\* nothing and gives none.
C13_ClassifiedAsAWhole ==
  \A i \in DOMAIN procs : \A data \in Chunks :
    (Alive /\ procs[i].st = "running") =>
      /\ DataResult(i, data).state[0] = Verdict(patterns[0], WordsOf(data), state[0])
      /\ StateEvents(DataResult(i, data))
           = IF Matching(patterns[0], WordsOf(data)) THEN 1 ELSE 0

\* a command whose ready and failed words differ has been classified READY
C13_Witness ==
  /\ patterns[0] = [ready |-> {"listening"}, building |-> {"compiling"}, failed |-> {"error"}]
  /\ state[0] = "READY"
  /\ Rendered
  /\ statusLineLength # Undefined

\* C14: the parent stays INSTALLING as long as an install step is queued or running,
\* and goes from INSTALLING to INITIALIZING only with an empty queue, in the step
\* that spawns the main command.
C14_InstallingUntilChainDone ==
  [][/\ (install'[0] # <<>> \/ StepRunning') => state'[0] = "INSTALLING"
     /\ (state[0] = "INSTALLING" /\ state'[0] = "INITIALIZING") =>
          (install'[0] = <<>> /\ \E j \in Spawned : procs'[j].owner = 0)]_vars

\* C15 (as specified): a runner begins INSTALLING exactly if its own install list is
\* non-empty: the command, before it is started, according to its list, and an
\* install runner, which has none, INITIALIZING when start() constructs it.
C15_InstallingIffOwnChain ==
  [][/\ ~managerStarted =>
          state[0] = IF Len(install[0]) > 0 THEN "INSTALLING" ELSE "INITIALIZING"
     /\ \A r \in Runners \ {0} :
          (state[r] = NoRunner /\ state'[r] # NoRunner) => state'[r] = "INITIALIZING"]_vars

\* C15 (amended): a runner begins INSTALLING exactly if it is an install runner or
\* its own install list is non-empty, and INITIALIZING otherwise.
C15_InstallingIffStepOrChain ==
  [][/\ ~managerStarted =>
          state[0] = IF Len(install[0]) > 0 THEN "INSTALLING" ELSE "INITIALIZING"
     /\ \A r \in Runners \ {0} :
          (state[r] = NoRunner /\ state'[r] # NoRunner) => state'[r] = "INSTALLING"]_vars

\* the first install runner has just been constructed and started
C15_Witness ==
  /\ state[1] = "INSTALLING"
  /\ state[2] = NoRunner
  /\ Len(procs) = 1
  /\ procs[1].owner = 1
  /\ procs[1].st = "running"

\* C16: an exit that the restarted flag does not cover makes the state COMPLETE
\* exactly for an install runner exiting with 0 and CLOSED otherwise, calls the state
\* callback with that state first, and then the close callback, once.
C16_StateEventThenClose ==
  [][\A i \in DOMAIN procs : \A code \in ExitCodes :
       (ProcClose(i, code) /\ ~restarted[procs[i].owner]) =>
         LET r == procs[i].owner
             new == IF r # 0 /\ code = 0 THEN "COMPLETE" ELSE "CLOSED"
             log == CloseResult(i, code).calls
         IN /\ state'[r] = new
            /\ Len(log) >= 2
            /\ log[1].cb = "state" /\ log[1].name = r /\ log[1].state = new
            /\ log[2].cb = "close" /\ log[2].name = r /\ log[2].code = code
            /\ Cardinality({k \in DOMAIN log : log[k].cb = "close"}) = 1]_vars

\* an install step has completed and the main command has crashed
C16_Witness ==
  /\ state[1] = "COMPLETE"
  /\ state[0] = "CLOSED"
  /\ Len(closeLog) = 1
  /\ closeLog[1].restart
  /\ timers[0] = 1

\* C17: every _clearStatusLines erases exactly the columns of the status line that
\* is on the terminal, none before the first status line is written: between two
\* handlers the columns in use are those the next _clearStatusLines erases, and
\* whatever event comes next, every _clearStatusLines of its handler is exact.
C17_ErasesWhatIsShown ==
  /\ statusLineLength = Undefined => termLine = 0
  /\ Alive => termLine = Repeat(statusLineLength)
  /\ (Alive /\ ~managerStarted) => Exact(StartResult)
  /\ \A i \in DOMAIN procs :
       (Alive /\ procs[i].st = "running") =>
         /\ \A code \in ExitCodes : Exact(CloseResult(i, code))
         /\ \A data \in ProcChunks : Exact(DataResult(i, data))
  /\ \A r \in Runners : (Alive /\ watchers[r] > 0) => Exact(ChangeResult(r))

\* the status line has been written, erased and written again by several callbacks
C17_Witness ==
  /\ statusLineLength # Undefined
  /\ statusLineLength > 0
  /\ termLine = statusLineLength
  /\ Len(closeLog) = 1
  /\ state[0] = "READY"

\* C18: the Manager's output callback never throws, whatever the chunk, and leaves
\* the status line written again.
C18_OutputNeverThrows ==
  [][\A i \in DOMAIN procs : \A data \in ProcChunks :
       ProcData(i, data) => (error' = "none" /\ Rendered')]_vars

\* C19: the restarted flag is set only while the exit of a killed process of the
\* runner is still to come, and the exit of a process that nothing killed always
\* reaches the close callback.
C19_OnlyKilledExitsSkipped ==
  [][/\ \A r \in Runners :
          restarted'[r] =>
            \E i \in DOMAIN procs' :
              procs'[i].owner = r /\ procs'[i].st = "running" /\ procs'[i].killed
     /\ \A i \in DOMAIN procs : \A code \in ExitCodes :
          (ProcClose(i, code) /\ ~procs[i].killed) =>
            \E k \in DOMAIN CloseResult(i, code).calls :
              /\ CloseResult(i, code).calls[k].cb = "close"
              /\ CloseResult(i, code).calls[k].name = procs[i].owner]_vars

\* C20: a runner registers at most one watcher, in the step of its first spawn; the
\* parent registers none while an install step is queued or running; and neither the
\* restart timer nor a change event registers one.
C20_WatcherRegisteredOnce ==
  [][/\ \A r \in Runners : watchers'[r] <= 1
     /\ \A r \in Runners :
          watchers'[r] > watchers[r] =>
            /\ \A j \in DOMAIN procs : procs[j].owner # r
            /\ \E j \in Spawned : procs'[j].owner = r
     /\ watchers'[0] > watchers[0] => (install'[0] = <<>> /\ ~StepRunning')
     /\ \A r \in Runners : (TimerFire(r) \/ WatchChange(r)) => watchers' = watchers]_vars

=============================================================================
